---- MODULE Spec2Model ----
(***************************************************************************)
(* Small Cafe Table Reservation System (src/app.py).                       *)
(*                                                                         *)
(* The record store is the SQLite database of the app: the cafe_tables     *)
(* table and the reservations table.  Every database helper of app.py      *)
(* opens its own connection, runs one statement (or one transaction) and   *)
(* closes, so one helper call is one atomic step.  A Streamlit script run  *)
(* is a sequence of such steps: init_db at its top, then the reads and     *)
(* writes of the handler of the pressed button; available_tables_for_slot  *)
(* is two steps, fetch_tables and fetch_reservations_on.  The script runs  *)
(* of different browser sessions interleave between the steps.             *)
(*                                                                         *)
(* Values of the widgets (form fields, buttons) are the inputs of a run.   *)
(* Table ids are the strings "T1".."T6", table names are strings, a date   *)
(* is <<year, month, day>>, a time of day is <<hour, minute>>; None is     *)
(* Python's None / SQL NULL.                                               *)
(***************************************************************************)
EXTENDS Integers, Sequences, FiniteSets, TLC

VARIABLES
    cafe_tables,     \* rows of table cafe_tables, in rowid (insertion) order
    reservations,    \* rows of table reservations, in rowid (insertion) order
    ss,              \* per browser session: position in its script run and locals
    out,             \* what the last step displayed and whom it notified
    fq               \* arguments and result of a direct call of the pure helpers

vars == <<cafe_tables, reservations, ss, out, fq>>

None == "None"

----------------------------------------------------------------------------
(* Bounds of the model *)

MaxResv == 2         \* rows the reservations table may hold
NumSessions == 2     \* concurrent browser sessions

Sessions == 1..NumSessions

----------------------------------------------------------------------------
(* Input domains *)

Dates == {<<2024, 1, 1>>, <<2024, 1, 2>>}
Contacts == {"a@x", "b@x"}

\* values of the booking form typed in the first session ...
AnnForms ==
    { [name |-> "", contact |-> "a@x", date |-> <<2024, 1, 1>>, time |-> <<10, 0>>,
       party |-> 6],
      [name |-> "Ann", contact |-> "a@x", date |-> <<2024, 1, 1>>, time |-> <<10, 0>>,
       party |-> 6],
      [name |-> "Ann", contact |-> "a@x", date |-> <<2024, 1, 1>>, time |-> <<10, 0>>,
       party |-> 8] }

\* ... and in the other sessions
BobForms ==
    { [name |-> "Bob", contact |-> "", date |-> <<2024, 1, 1>>, time |-> <<11, 0>>,
       party |-> 6],
      [name |-> "Bob", contact |-> "b@x", date |-> <<2024, 1, 1>>, time |-> <<11, 0>>,
       party |-> 6] }

BookingForms == AnnForms \cup BobForms

FormsOf(s) == IF s = 1 THEN AnnForms ELSE BobForms

\* the sessions whose user picks the role Admin
Admins == Sessions \ {1}

ADMIN_PASSWORD == "admin123"

\* text typed as the admin password
Passwords == {"admin123", "guess"}

\* rank of a table id / table name in string order (Python and SQLite BINARY collation)
TableIdRank(t) ==
    CASE t = "T1" -> 1 [] t = "T2" -> 2 [] t = "T3" -> 3
      [] t = "T4" -> 4 [] t = "T5" -> 5 [] t = "T6" -> 6

NameRank(n) ==
    CASE n = "Booth 4-seater" -> 1 [] n = "Center 4-seater" -> 2
      [] n = "Community 6-seater" -> 3 [] n = "Corner 2-seater" -> 4
      [] n = "Patio 2-seater" -> 5 [] n = "Window 2-seater" -> 6

----------------------------------------------------------------------------
(* Database helpers *)

\* init_db: the sample rows inserted into an empty cafe_tables
sample ==
    << [table_id |-> "T1", name |-> "Window 2-seater", capacity |-> 2],
       [table_id |-> "T2", name |-> "Corner 2-seater", capacity |-> 2],
       [table_id |-> "T3", name |-> "Center 4-seater", capacity |-> 4],
       [table_id |-> "T4", name |-> "Booth 4-seater", capacity |-> 4],
       [table_id |-> "T5", name |-> "Community 6-seater", capacity |-> 6] >>

\* ORDER BY capacity, name
TableOrder(a, b) ==
    \/ a.capacity < b.capacity
    \/ a.capacity = b.capacity /\ NameRank(a.name) < NameRank(b.name)

\* SELECT * FROM cafe_tables ORDER BY capacity, name (rows equal in both keep
\* their rowid order)
fetch_tables == SortSeq(cafe_tables, TableOrder)

fetch_reservations_on(date_str) ==
    SelectSeq(reservations, LAMBDA r : r.date = date_str)

(* UPDATE reservations SET ... WHERE reservation_id = ?  (no row: no change) *)
update_reservation_status(reservation_id, status) ==
    [i \in DOMAIN reservations |->
        IF reservations[i].reservation_id = reservation_id
        THEN [reservations[i] EXCEPT !.status = status]
        ELSE reservations[i]]

assign_table_to_reservation(reservation_id, table_id) ==
    [i \in DOMAIN reservations |->
        IF reservations[i].reservation_id = reservation_id
        THEN [reservations[i] EXCEPT !.table_id = table_id, !.status = "confirmed"]
        ELSE reservations[i]]

\* a DELETE of the row instead of the UPDATE of its status
delete_reservation_row(reservation_id) ==
    SelectSeq(reservations, LAMBDA r : r.reservation_id # reservation_id)

delete_reservation(reservation_id) ==
    [i \in DOMAIN reservations |->
        IF reservations[i].reservation_id = reservation_id
        THEN [reservations[i] EXCEPT !.status = "cancelled"]
        ELSE reservations[i]]

insert_reservation(resv) == Append(reservations, resv)

----------------------------------------------------------------------------
(* Reservation logic *)

RESERVATION_DURATION_MINUTES == 90

IsLeap(y) == (y % 4 = 0 /\ y % 100 # 0) \/ y % 400 = 0

DaysInMonth(y, m) ==
    IF m = 2 THEN (IF IsLeap(y) THEN 29 ELSE 28)
    ELSE IF m \in {4, 6, 9, 11} THEN 30 ELSE 31

RECURSIVE DaysBeforeMonth(_, _)
DaysBeforeMonth(y, m) ==
    IF m = 1 THEN 0 ELSE DaysBeforeMonth(y, m - 1) + DaysInMonth(y, m - 1)

\* proleptic Gregorian ordinal of a date (datetime's day count)
Ordinal(d) ==
    LET y == d[1] - 1
    IN y * 365 + (y \div 4) - (y \div 100) + (y \div 400)
         + DaysBeforeMonth(d[1], d[2]) + d[3]

MinuteOfDay(time) == time[1] * 60 + time[2]

NextDay(d) ==
    IF d[3] < DaysInMonth(d[1], d[2]) THEN <<d[1], d[2], d[3] + 1>>
    ELSE IF d[2] < 12 THEN <<d[1], d[2] + 1, 1>>
    ELSE <<d[1] + 1, 1, 1>>

PrevDay(d) ==
    IF d[3] > 1 THEN <<d[1], d[2], d[3] - 1>>
    ELSE IF d[2] > 1 THEN <<d[1], d[2] - 1, DaysInMonth(d[1], d[2] - 1)>>
    ELSE <<d[1] - 1, 12, 31>>

\* datetime.combine(date, time) + timedelta(minutes=delta) for a delta of less
\* than a day, as <<alt_date, alt_time>>
AddMinutes(date, time, delta) ==
    LET total == MinuteOfDay(time) + delta
        m == total % 1440
        alt_date == IF total < 0 THEN PrevDay(date)
                    ELSE IF total >= 1440 THEN NextDay(date)
                    ELSE date
    IN <<alt_date, <<m \div 60, m % 60>>>>

\* strptime("%Y-%m-%d %H:%M"): the instant, in minutes
parse_datetime(date_str, time_str) ==
    Ordinal(date_str) * 1440 + time_str[1] * 60 + time_str[2]

\* time_conflicts with strict comparisons: windows that only touch conflict
time_conflicts_strict(resv_dt, existing_dt) ==
    LET delta == RESERVATION_DURATION_MINUTES
    IN ~(resv_dt + delta < existing_dt \/ existing_dt + delta < resv_dt)

time_conflicts(resv_dt, existing_dt) ==
    LET delta == RESERVATION_DURATION_MINUTES
    IN ~(resv_dt + delta <= existing_dt \/ existing_dt + delta <= resv_dt)

\* Python truthiness of a table_id cell
Truthy(v) == v # None /\ v # ""

\* the loop without its skip of cancelled rows
RECURSIVE BusyLoopCancelledToo(_, _, _)
BusyLoopCancelledToo(rows, requested_dt, busy_table_ids) ==
    IF rows = <<>> THEN busy_table_ids
    ELSE LET r == Head(rows)
             existing_dt == parse_datetime(r.date, r.time)
         IN IF time_conflicts(requested_dt, existing_dt) /\ Truthy(r.table_id)
            THEN BusyLoopCancelledToo(Tail(rows), requested_dt,
                                      busy_table_ids \cup {r.table_id})
            ELSE BusyLoopCancelledToo(Tail(rows), requested_dt, busy_table_ids)

\* the loop with the busy set overwritten by each conflicting row, not added to
RECURSIVE BusyLoopLastWins(_, _, _)
BusyLoopLastWins(rows, requested_dt, busy_table_ids) ==
    IF rows = <<>> THEN busy_table_ids
    ELSE LET r == Head(rows)
             existing_dt == parse_datetime(r.date, r.time)
         IN IF r.status = "cancelled"
            THEN BusyLoopLastWins(Tail(rows), requested_dt, busy_table_ids)
            ELSE IF time_conflicts(requested_dt, existing_dt) /\ Truthy(r.table_id)
            THEN BusyLoopLastWins(Tail(rows), requested_dt, {r.table_id})
            ELSE BusyLoopLastWins(Tail(rows), requested_dt, busy_table_ids)

\* the loop over the date's rows that collects busy_table_ids
RECURSIVE BusyLoop(_, _, _)
BusyLoop(rows, requested_dt, busy_table_ids) ==
    IF rows = <<>> THEN busy_table_ids
    ELSE LET r == Head(rows)
             existing_dt == parse_datetime(r.date, r.time)
         IN IF r.status = "cancelled"
            THEN BusyLoop(Tail(rows), requested_dt, busy_table_ids)
            ELSE IF time_conflicts(requested_dt, existing_dt) /\ Truthy(r.table_id)
            THEN BusyLoop(Tail(rows), requested_dt, busy_table_ids \cup {r.table_id})
            ELSE BusyLoop(Tail(rows), requested_dt, busy_table_ids)

\* available_tables_for_slot after its two reads: the busy loop over the
\* fetched reservations rsv and the mask on the fetched frame all_tables
available_tables_on(all_tables, rsv, date_str, time_str, party_size) ==
    LET requested_dt == parse_datetime(date_str, time_str)
        busy_table_ids == BusyLoop(rsv, requested_dt, {})
    IN SelectSeq(all_tables,
                 LAMBDA t : t.capacity >= party_size /\ t.table_id \notin busy_table_ids)

\* candidate table rows that are free at the slot, in fetch_tables order, when
\* nothing is committed between the two reads
available_tables_for_slot(date_str, time_str, party_size) ==
    LET all_tables == fetch_tables
        rsv == fetch_reservations_on(date_str)
    IN available_tables_on(all_tables, rsv, date_str, time_str, party_size)

\* the sort without its table_id key
WasteOrderNoId(party_size, a, b) ==
    LET wa == a.capacity - party_size
        wb == b.capacity - party_size
    IN \/ wa < wb
       \/ wa = wb /\ a.capacity < b.capacity

\* sort_values(["waste", "capacity", "table_id"]) on rows of one party size
WasteOrder(party_size, a, b) ==
    LET wa == a.capacity - party_size
        wb == b.capacity - party_size
    IN \/ wa < wb
       \/ wa = wb /\ a.capacity < b.capacity
       \/ wa = wb /\ a.capacity = b.capacity
            /\ TableIdRank(a.table_id) < TableIdRank(b.table_id)

\* ai_assign_table after its call of available_tables_for_slot
chosen_of(candidates, party_size) ==
    IF candidates = <<>> THEN None
    ELSE LET sorted == SortSeq(candidates,
                               LAMBDA a, b : WasteOrder(party_size, a, b))
             chosen == sorted[1]
         IN chosen.table_id

ai_assign_table(date_str, time_str, party_size) ==
    LET candidates == available_tables_for_slot(date_str, time_str, party_size)
    IN chosen_of(candidates, party_size)

----------------------------------------------------------------------------
(* Script runs.  Every run starts from pc = "idle" with init_db and has    *)
(* the widget values as its inputs; each later step of a run is one        *)
(* database call together with the code that follows it up to the next     *)
(* database call.  A run that ends, or that ends in st.experimental_rerun, *)
(* leaves the session at "idle": the next run starts with init_db again.   *)
(* A SELECT whose result is only drawn on the page (tables_df, and rsv_df  *)
(* or df in a run that presses no button under them) is not a step.        *)
(* out.msg is the last message of the step; a step that shows none has     *)
(* NoOutput.                                                               *)

ReservationIds == 1..MaxResv      \* uuid4()[:8] of the n-th inserted row
IdInputs == 0..MaxResv            \* text typed as a reservation id; 0 is the empty text
ManualInputs == {"T1", "T5"}      \* text typed as the table id to assign manually
RemoveInputs == {"T5"}            \* text typed as the table id to remove
NewTables ==                      \* values of the "Add table" form
    { [table_id |-> "T5", name |-> "Community 6-seater", capacity |-> 6],
      [table_id |-> "T5", name |-> "", capacity |-> 6] }

\* for delta in (-60, -30, 30, 60)
Deltas == <<-60, -30, 30, 60>>

IdleLocals ==
    [pc |-> "idle", name |-> None, contact |-> None, date |-> <<>>, time |-> <<>>, party |-> 0,
     all_tables |-> <<>>, candidates |-> <<>>, delta |-> 0, suggestions |-> <<>>,
     id |-> 0, table |-> None, pending |-> <<>>, count |-> 0]

NoOutput == [msg |-> None, notified |-> {}, count |-> 0, suggestions |-> <<>>]

Shown(m) == [msg |-> m, notified |-> {}, count |-> 0, suggestions |-> <<>>]

\* send_notification(contact, ...) about reservation id, after message m
Sent(m, contact, id) == [msg |-> m, notified |-> {contact}, count |-> 0, suggestions |-> <<>>]

\* the runs that have pressed "Confirm reservation" and not yet inserted
Inserting == { t \in Sessions : ss[t].pc = "book_insert" }

RowsWithId(id) == SelectSeq(reservations, LAMBDA r : r.reservation_id = id)

\* init_db at the top of a run: the CREATE TABLE IF NOT EXISTS statements and
\* SELECT COUNT(*) FROM cafe_tables
init_db(s) ==
    /\ ss[s].pc = "idle"
    /\ ss' = [ss EXCEPT ![s].pc = IF Len(cafe_tables) = 0 THEN "init_insert" ELSE "run"]
    /\ out' = NoOutput
    /\ UNCHANGED <<cafe_tables, reservations, fq>>

\* init_db after a count of 0: the five INSERTs and the commit.  A table_id
\* that is present by now violates the PRIMARY KEY: the INSERT raises, nothing
\* is committed and the run ends.
init_db_insert(s) ==
    /\ ss[s].pc = "init_insert"
    /\ IF \E k \in DOMAIN cafe_tables, j \in DOMAIN sample :
             cafe_tables[k].table_id = sample[j].table_id
       THEN /\ out' = Shown("IntegrityError")
            /\ ss' = [ss EXCEPT ![s] = IdleLocals]
            /\ UNCHANGED cafe_tables
       ELSE /\ cafe_tables' = cafe_tables \o sample
            /\ ss' = [ss EXCEPT ![s].pc = "run"]
            /\ out' = NoOutput
    /\ UNCHANGED <<reservations, fq>>

\* a run in which no button is pressed: the page is drawn, nothing is written
Render(s) ==
    /\ ss[s].pc = "run"
    /\ ss' = [ss EXCEPT ![s] = IdleLocals]
    /\ out' = NoOutput
    /\ UNCHANGED <<cafe_tables, reservations, fq>>

\* a run that stops before its end (the script is stopped by a new widget
\* event of its session, or the server process ends)
Abandon(s) ==
    /\ ss[s].pc \notin {"idle", "run"}
    /\ ss' = [ss EXCEPT ![s] = IdleLocals]
    /\ out' = NoOutput
    /\ UNCHANGED <<cafe_tables, reservations, fq>>

\* "Check & Book" without the check of name and contact
BookSubmitNoValidation(s, form) ==
    /\ ss[s].pc = "run"
    /\ ss' = [ss EXCEPT ![s] =
                [IdleLocals EXCEPT !.pc = "book_check",
                    !.name = form.name, !.contact = form.contact,
                    !.date = form.date, !.time = form.time,
                    !.party = form.party, !.all_tables = fetch_tables]]
    /\ out' = NoOutput
    /\ UNCHANGED <<cafe_tables, reservations, fq>>

\* Customer, "Check & Book" with the form's values: the check of name and
\* contact and, in available_tables_for_slot, all_tables = fetch_tables()
BookSubmit(s, form) ==
    /\ ss[s].pc = "run"
    /\ UNCHANGED <<cafe_tables, reservations, fq>>
    /\ LET name == form.name
           contact == form.contact
           date == form.date
           time == form.time
           party == form.party
       IN
       IF name = "" \/ contact = ""
       THEN /\ out' = Shown("Please enter name and contact.")
            /\ ss' = [ss EXCEPT ![s] = IdleLocals]
       ELSE /\ ss' = [ss EXCEPT ![s] =
                        [IdleLocals EXCEPT !.pc = "book_check",
                            !.name = name, !.contact = contact,
                            !.date = date, !.time = time,
                            !.party = party, !.all_tables = fetch_tables]]
            /\ out' = NoOutput

\* the step of BookCheck that books a pending reservation when no table is
\* available
BookCheckPending(s) ==
    /\ ss[s].pc = "book_check"
    /\ UNCHANGED <<cafe_tables, fq>>
    /\ LET candidates == available_tables_on(ss[s].all_tables,
                                             fetch_reservations_on(ss[s].date),
                                             ss[s].date, ss[s].time, ss[s].party)
       IN IF candidates = <<>>
          THEN /\ Len(reservations) < MaxResv + NumSessions
               /\ reservations' = Append(reservations,
                      [reservation_id |-> Len(reservations) + 1,
                       customer_name |-> ss[s].name,
                       contact |-> ss[s].contact, date |-> ss[s].date,
                       time |-> ss[s].time, party_size |-> ss[s].party,
                       table_id |-> None, status |-> "pending",
                       created_at |-> Len(reservations) + 1])
               /\ out' = Sent("Reservation created!", ss[s].contact,
                              Len(reservations) + 1)
               /\ ss' = [ss EXCEPT ![s] = IdleLocals]
          ELSE /\ out' = [Shown("table(s) available") EXCEPT !.count = Len(candidates)]
               /\ ss' = [ss EXCEPT ![s].pc = "book_suggest",
                                   ![s].all_tables = <<>>,
                                   ![s].candidates = candidates]
               /\ UNCHANGED reservations

\* candidates = available_tables_for_slot(...) from its fetch_reservations_on
\* on, and the message about the result
BookCheck(s) ==
    /\ ss[s].pc = "book_check"
    /\ UNCHANGED <<cafe_tables, reservations, fq>>
    /\ LET candidates == available_tables_on(ss[s].all_tables,
                                             fetch_reservations_on(ss[s].date),
                                             ss[s].date, ss[s].time, ss[s].party)
       IN IF candidates = <<>>
          THEN /\ out' = Shown("No tables available")
               /\ ss' = [ss EXCEPT ![s].pc = "alt_tables",
                                   ![s].all_tables = <<>>,
                                   ![s].delta = 1]
          ELSE /\ out' = [Shown("table(s) available") EXCEPT !.count = Len(candidates)]
               /\ ss' = [ss EXCEPT ![s].pc = "book_suggest",
                                   ![s].all_tables = <<>>,
                                   ![s].candidates = candidates]

\* the loop over the alternative times: fetch_tables() of the next call of
\* available_tables_for_slot
AltTables(s) ==
    /\ ss[s].pc = "alt_tables"
    /\ ss' = [ss EXCEPT ![s].pc = "alt_check", ![s].all_tables = fetch_tables]
    /\ out' = NoOutput
    /\ UNCHANGED <<cafe_tables, reservations, fq>>

\* the rest of that call, suggestions.append, and after the last delta the
\* message with the suggestions; without a suggestion the page ends with the
\* warning
AltCheck(s) ==
    /\ ss[s].pc = "alt_check"
    /\ UNCHANGED <<cafe_tables, reservations, fq>>
    /\ LET alt == AddMinutes(ss[s].date, ss[s].time, Deltas[ss[s].delta])
           alt_date == alt[1]
           alt_time == alt[2]
           found == available_tables_on(ss[s].all_tables,
                                        fetch_reservations_on(alt_date),
                                        alt_date, alt_time, ss[s].party)
           suggestions == IF found # <<>> THEN Append(ss[s].suggestions, alt)
                          ELSE ss[s].suggestions
       IN IF ss[s].delta < Len(Deltas)
          THEN /\ ss' = [ss EXCEPT ![s].pc = "alt_tables",
                                   ![s].all_tables = <<>>,
                                   ![s].delta = @ + 1,
                                   ![s].suggestions = suggestions]
               /\ out' = NoOutput
          ELSE /\ ss' = [ss EXCEPT ![s] = IdleLocals]
               /\ out' = IF suggestions # <<>>
                         THEN [Shown("Try these alternatives") EXCEPT
                                  !.suggestions = suggestions]
                         ELSE Shown("No tables available")

\* suggested_table = ai_assign_table(...): its fetch_tables()
BookSuggestTables(s) ==
    /\ ss[s].pc = "book_suggest"
    /\ ss' = [ss EXCEPT ![s].pc = "book_pick", ![s].all_tables = fetch_tables]
    /\ out' = NoOutput
    /\ UNCHANGED <<cafe_tables, reservations, fq>>

\* the rest of ai_assign_table, the message with the suggestion, and the
\* "Confirm reservation (assign suggested)" button, whose value is confirm
BookSuggest(s, confirm) ==
    /\ ss[s].pc = "book_pick"
    /\ confirm => Len(reservations) + Cardinality(Inserting) < MaxResv
    /\ UNCHANGED <<cafe_tables, reservations, fq>>
    /\ LET suggested_table ==
               chosen_of(available_tables_on(ss[s].all_tables,
                                             fetch_reservations_on(ss[s].date),
                                             ss[s].date, ss[s].time, ss[s].party),
                         ss[s].party)
       IN /\ out' = IF Truthy(suggested_table)
                    THEN Shown("Suggested table (AI)")
                    ELSE Shown("No automatic suggestion available.")
          /\ ss' = IF confirm
                   THEN [ss EXCEPT ![s].pc = "book_insert",
                                   ![s].all_tables = <<>>,
                                   ![s].table = suggested_table]
                   ELSE [ss EXCEPT ![s] = IdleLocals]

\* the insert with the status left at insert_reservation's default, "pending"
BookInsertPending(s) ==
    /\ ss[s].pc = "book_insert"
    /\ LET reservation_id == Len(reservations) + 1
           resv == [reservation_id |-> reservation_id,
                    customer_name |-> ss[s].name,
                    contact |-> ss[s].contact,
                    date |-> ss[s].date,
                    time |-> ss[s].time,
                    party_size |-> ss[s].party,
                    table_id |-> ss[s].table,
                    status |-> "pending",
                    created_at |-> Len(reservations) + 1]
       IN /\ reservations' = insert_reservation(resv)
          /\ out' = Sent("Reservation created!", ss[s].contact, reservation_id)
    /\ ss' = [ss EXCEPT ![s] = IdleLocals]
    /\ UNCHANGED <<cafe_tables, fq>>

\* the resv dict, insert_reservation(resv), send_notification
BookInsert(s) ==
    /\ ss[s].pc = "book_insert"
    /\ LET reservation_id == Len(reservations) + 1
           suggested_table == ss[s].table
           resv == [reservation_id |-> reservation_id,
                    customer_name |-> ss[s].name,
                    contact |-> ss[s].contact,
                    date |-> ss[s].date,
                    time |-> ss[s].time,
                    party_size |-> ss[s].party,
                    table_id |-> suggested_table,
                    status |-> IF Truthy(suggested_table) THEN "confirmed" ELSE "pending",
                    created_at |-> Len(reservations) + 1]
       IN /\ reservations' = insert_reservation(resv)
          /\ out' = Sent("Reservation created!", ss[s].contact, reservation_id)
    /\ ss' = [ss EXCEPT ![s] = IdleLocals]
    /\ UNCHANGED <<cafe_tables, fq>>

\* "Cancel reservation" that looks the id up in the whole store, not in the
\* rows of the contact
CancelOwnAnyContact(s, contact_lookup, to_cancel) ==
    /\ ss[s].pc = "run"
    /\ contact_lookup # ""
    /\ UNCHANGED <<cafe_tables, reservations, fq>>
    /\ LET df == SelectSeq(reservations, LAMBDA r : r.contact = contact_lookup)
           matching == SelectSeq(reservations, LAMBDA r : r.reservation_id = to_cancel)
       IN IF df = <<>>
          THEN /\ out' = Shown("No reservations found for that contact.")
               /\ ss' = [ss EXCEPT ![s] = IdleLocals]
          ELSE IF to_cancel = 0
          THEN /\ out' = Shown("Enter a reservation ID.")
               /\ ss' = [ss EXCEPT ![s] = IdleLocals]
          ELSE IF matching = <<>>
          THEN /\ out' = Shown("Reservation ID not found for this contact.")
               /\ ss' = [ss EXCEPT ![s] = IdleLocals]
          ELSE /\ out' = NoOutput
               /\ ss' = [ss EXCEPT ![s] =
                           [IdleLocals EXCEPT !.pc = "cancel_write",
                               !.id = to_cancel, !.contact = contact_lookup]]

\* Customer, "Cancel reservation" under "Manage your reservations": the
\* SELECT of the contact's rows and the lookup of the typed id in them
CancelOwn(s, contact_lookup, to_cancel) ==
    /\ ss[s].pc = "run"
    /\ contact_lookup # ""
    /\ UNCHANGED <<cafe_tables, reservations, fq>>
    /\ LET df == SelectSeq(reservations, LAMBDA r : r.contact = contact_lookup)
           matching == SelectSeq(df, LAMBDA r : r.reservation_id = to_cancel)
       IN IF df = <<>>
          THEN /\ out' = Shown("No reservations found for that contact.")
               /\ ss' = [ss EXCEPT ![s] = IdleLocals]
          ELSE IF to_cancel = 0
          THEN /\ out' = Shown("Enter a reservation ID.")
               /\ ss' = [ss EXCEPT ![s] = IdleLocals]
          ELSE IF matching = <<>>
          THEN /\ out' = Shown("Reservation ID not found for this contact.")
               /\ ss' = [ss EXCEPT ![s] = IdleLocals]
          ELSE /\ out' = NoOutput
               /\ ss' = [ss EXCEPT ![s] =
                           [IdleLocals EXCEPT !.pc = "cancel_write",
                               !.id = to_cancel, !.contact = contact_lookup]]

\* delete_reservation(to_cancel), send_notification
CancelOwnWrite(s) ==
    /\ ss[s].pc = "cancel_write"
    /\ reservations' = delete_reservation(ss[s].id)
    /\ out' = Sent("Reservation cancelled.", ss[s].contact, ss[s].id)
    /\ ss' = [ss EXCEPT ![s] = IdleLocals]
    /\ UNCHANGED <<cafe_tables, fq>>

\* Admin with a password that is not ADMIN_PASSWORD: the warning and st.stop()
AdminGate(s, pwd) ==
    /\ ss[s].pc = "run"
    /\ pwd # ADMIN_PASSWORD
    /\ out' = Shown("Enter admin password to access.")
    /\ ss' = [ss EXCEPT ![s] = IdleLocals]
    /\ UNCHANGED <<cafe_tables, reservations, fq>>

\* Admin, Reservations tab, "Confirm (assign suggested)": the SELECT of rsv_df
\* and the lookup of sel_id in it
AdminConfirm(s, sel_id) ==
    /\ ss[s].pc = "run"
    /\ UNCHANGED <<cafe_tables, reservations, fq>>
    /\ LET row == RowsWithId(sel_id)
       IN IF reservations = <<>>
          THEN /\ out' = Shown("No reservations yet.")
               /\ ss' = [ss EXCEPT ![s] = IdleLocals]
          ELSE IF row = <<>>
          THEN /\ out' = Shown("Reservation not found.")
               /\ ss' = [ss EXCEPT ![s] = IdleLocals]
          ELSE LET r == row[1]
               IN /\ ss' = [ss EXCEPT ![s] =
                              [IdleLocals EXCEPT !.pc = "confirm_tables",
                                  !.id = sel_id, !.contact = r.contact,
                                  !.date = r.date, !.time = r.time,
                                  !.party = r.party_size]]
                  /\ out' = NoOutput

\* assigned = ai_assign_table(...): its fetch_tables()
AdminConfirmTables(s) ==
    /\ ss[s].pc = "confirm_tables"
    /\ ss' = [ss EXCEPT ![s].pc = "confirm_pick", ![s].all_tables = fetch_tables]
    /\ out' = NoOutput
    /\ UNCHANGED <<cafe_tables, reservations, fq>>

\* the rest of ai_assign_table and the test of assigned
AdminConfirmSuggest(s) ==
    /\ ss[s].pc = "confirm_pick"
    /\ UNCHANGED <<cafe_tables, reservations, fq>>
    /\ LET assigned ==
               chosen_of(available_tables_on(ss[s].all_tables,
                                             fetch_reservations_on(ss[s].date),
                                             ss[s].date, ss[s].time, ss[s].party),
                         ss[s].party)
       IN IF ~Truthy(assigned)
          THEN /\ out' = Shown("No table available for that slot.")
               /\ ss' = [ss EXCEPT ![s] = IdleLocals]
          ELSE /\ ss' = [ss EXCEPT ![s].pc = "confirm_write",
                                   ![s].all_tables = <<>>,
                                   ![s].table = assigned]
               /\ out' = NoOutput

\* assign_table_to_reservation(sel_id, assigned), send_notification
AdminConfirmWrite(s) ==
    /\ ss[s].pc = "confirm_write"
    /\ reservations' = assign_table_to_reservation(ss[s].id, ss[s].table)
    /\ out' = Sent("Assigned and confirmed", ss[s].contact, ss[s].id)
    /\ ss' = [ss EXCEPT ![s] = IdleLocals]
    /\ UNCHANGED <<cafe_tables, fq>>

\* Admin, Reservations tab, "Mark Cancelled": the SELECT of rsv_df and the
\* lookup of sel_id in it
AdminCancel(s, sel_id) ==
    /\ ss[s].pc = "run"
    /\ UNCHANGED <<cafe_tables, reservations, fq>>
    /\ LET row == RowsWithId(sel_id)
       IN IF reservations = <<>>
          THEN /\ out' = Shown("No reservations yet.")
               /\ ss' = [ss EXCEPT ![s] = IdleLocals]
          ELSE IF row = <<>>
          THEN /\ out' = Shown("Reservation not found.")
               /\ ss' = [ss EXCEPT ![s] = IdleLocals]
          ELSE /\ out' = NoOutput
               /\ ss' = [ss EXCEPT ![s] =
                           [IdleLocals EXCEPT !.pc = "admin_cancel_write",
                               !.id = sel_id, !.contact = row[1].contact]]

\* delete_reservation(sel_id), send_notification
AdminCancelWrite(s) ==
    /\ ss[s].pc = "admin_cancel_write"
    /\ reservations' = delete_reservation(ss[s].id)
    /\ out' = Sent("Marked cancelled.", ss[s].contact, ss[s].id)
    /\ ss' = [ss EXCEPT ![s] = IdleLocals]
    /\ UNCHANGED <<cafe_tables, fq>>

\* Admin, Reservations tab, "Manual assign table": the SELECT of rsv_df and
\* the lookup of sel_id in it
ManualAssign(s, sel_id, manual_table) ==
    /\ ss[s].pc = "run"
    /\ manual_table # ""
    /\ UNCHANGED <<cafe_tables, reservations, fq>>
    /\ LET row == RowsWithId(sel_id)
       IN IF reservations = <<>>
          THEN /\ out' = Shown("No reservations yet.")
               /\ ss' = [ss EXCEPT ![s] = IdleLocals]
          ELSE IF row = <<>>
          THEN /\ out' = Shown("Reservation not found.")
               /\ ss' = [ss EXCEPT ![s] = IdleLocals]
          ELSE /\ out' = NoOutput
               /\ ss' = [ss EXCEPT ![s] =
                           [IdleLocals EXCEPT !.pc = "manual_write",
                               !.id = sel_id, !.table = manual_table,
                               !.contact = row[1].contact]]

\* assign_table_to_reservation(sel_id, manual_table), send_notification
ManualAssignWrite(s) ==
    /\ ss[s].pc = "manual_write"
    /\ reservations' = assign_table_to_reservation(ss[s].id, ss[s].table)
    /\ out' = Sent("Manually assigned.", ss[s].contact, ss[s].id)
    /\ ss' = [ss EXCEPT ![s] = IdleLocals]
    /\ UNCHANGED <<cafe_tables, fq>>

\* Admin, Tables tab, "Add table"; a table_id already present violates the
\* PRIMARY KEY and the insert raises
AddTable(s, new) ==
    /\ ss[s].pc = "run"
    /\ ss' = [ss EXCEPT ![s] = IdleLocals]
    /\ UNCHANGED <<reservations, fq>>
    /\ IF new.table_id = "" \/ new.name = ""
       THEN /\ out' = Shown("Provide ID and name.")
            /\ UNCHANGED cafe_tables
       ELSE IF \E k \in DOMAIN cafe_tables : cafe_tables[k].table_id = new.table_id
       THEN /\ out' = Shown("IntegrityError")
            /\ UNCHANGED cafe_tables
       ELSE /\ cafe_tables' = Append(cafe_tables, new)
            /\ out' = Shown("Table added.")

\* Admin, Tables tab, "Remove table"
RemoveTable(s, rem) ==
    /\ ss[s].pc = "run"
    /\ ss' = [ss EXCEPT ![s] = IdleLocals]
    /\ UNCHANGED <<reservations, fq>>
    /\ IF rem = ""
       THEN /\ out' = Shown("Enter table ID.")
            /\ UNCHANGED cafe_tables
       ELSE /\ cafe_tables' = SelectSeq(cafe_tables, LAMBDA t : t.table_id # rem)
            /\ out' = Shown("Table removed (if existed).")

\* the condition without its test of table_id and status "confirmed"
EligibleAnyLive(r) == r.status # "cancelled"

\* the condition of the batch loop on a row of the fetched frame
Eligible(r) ==
    r.status # "cancelled" /\ (~Truthy(r.table_id) \/ r.status # "confirmed")

\* the row of the store with a reservation_id (ids are never reused)
RowOf(id) == RowsWithId(id)[1]

\* "Run batch assign" that walks the fetched rows newest first
BatchFetchNewestFirst(s, batch_date) ==
    /\ ss[s].pc = "run"
    /\ UNCHANGED <<cafe_tables, reservations, fq>>
    /\ LET pending == fetch_reservations_on(batch_date)
           todo == SelectSeq(pending, Eligible)
       IN IF pending = <<>>
          THEN /\ out' = Shown("No reservations on that date.")
               /\ ss' = [ss EXCEPT ![s] = IdleLocals]
          ELSE /\ ss' = [ss EXCEPT ![s] =
                           [IdleLocals EXCEPT !.pc = "batch_loop",
                               !.pending = [k \in 1..Len(todo) |->
                                              todo[Len(todo) + 1 - k].reservation_id]]]
               /\ out' = NoOutput

\* Admin, Quick Assign AI tab, "Run batch assign": pending = fetch_reservations_on.
\* The loop reads status and table_id from the fetched frame, so the rows it
\* will process are fixed here; their other columns never change.
BatchFetch(s, batch_date) ==
    /\ ss[s].pc = "run"
    /\ UNCHANGED <<cafe_tables, reservations, fq>>
    /\ LET pending == fetch_reservations_on(batch_date)
           todo == SelectSeq(pending, Eligible)
       IN IF pending = <<>>
          THEN /\ out' = Shown("No reservations on that date.")
               /\ ss' = [ss EXCEPT ![s] = IdleLocals]
          ELSE /\ ss' = [ss EXCEPT ![s] =
                           [IdleLocals EXCEPT !.pc = "batch_loop",
                               !.pending = [k \in 1..Len(todo) |-> todo[k].reservation_id]]]
               /\ out' = NoOutput

\* the loop up to the fetch_tables() of its next call of ai_assign_table, or
\* to its end and the message with assigned_count
BatchLoop(s) ==
    /\ ss[s].pc = "batch_loop"
    /\ UNCHANGED <<cafe_tables, reservations, fq>>
    /\ IF ss[s].pending = <<>>
       THEN /\ out' = [Shown("Batch assignment completed.") EXCEPT !.count = ss[s].count]
            /\ ss' = [ss EXCEPT ![s] = IdleLocals]
       ELSE /\ out' = NoOutput
            /\ ss' = [ss EXCEPT ![s].pc = "batch_pick", ![s].all_tables = fetch_tables]

\* the rest of that call of ai_assign_table and the test of asg
BatchSuggest(s) ==
    /\ ss[s].pc = "batch_pick"
    /\ UNCHANGED <<cafe_tables, reservations, fq>>
    /\ LET pending == ss[s].pending
           r == RowOf(Head(pending))
           asg == chosen_of(available_tables_on(ss[s].all_tables,
                                                fetch_reservations_on(r.date),
                                                r.date, r.time, r.party_size),
                            r.party_size)
       IN /\ out' = NoOutput
          /\ IF Truthy(asg)
             THEN ss' = [ss EXCEPT ![s].pc = "batch_write", ![s].all_tables = <<>>,
                                   ![s].table = asg]
             ELSE ss' = [ss EXCEPT ![s].pc = "batch_loop", ![s].all_tables = <<>>,
                                   ![s].pending = Tail(pending)]

\* assign_table_to_reservation(r["reservation_id"], asg), send_notification,
\* assigned_count += 1
BatchWrite(s) ==
    /\ ss[s].pc = "batch_write"
    /\ LET r == RowOf(Head(ss[s].pending))
       IN /\ reservations' = assign_table_to_reservation(r.reservation_id, ss[s].table)
          /\ out' = Sent(None, r.contact, r.reservation_id)
    /\ ss' = [ss EXCEPT ![s].pc = "batch_loop", ![s].pending = Tail(@),
                        ![s].table = None, ![s].count = @ + 1]
    /\ UNCHANGED <<cafe_tables, fq>>

----------------------------------------------------------------------------

NoCall == [op |-> None]

\* the rows of cafe_tables when the app starts: none in a new database file
\* (the first init_db inserts the sample rows), or what the admin of an
\* earlier start left of them
StartTables == { <<>>, <<sample[5]>> }

Init ==
    /\ cafe_tables \in StartTables
    /\ reservations = <<>>
    /\ ss = [s \in Sessions |-> IdleLocals]
    /\ out = NoOutput
    /\ fq = NoCall

Next ==
    \/ \E s \in Sessions : init_db(s)
    \/ \E s \in Sessions : init_db_insert(s)
    \/ \E s \in Sessions : Render(s)
    \/ \E s \in Sessions : Abandon(s)
    \/ \E s \in Sessions : \E form \in FormsOf(s) : BookSubmit(s, form)
    \/ \E s \in Sessions : BookCheck(s)
    \/ \E s \in Sessions : AltTables(s)
    \/ \E s \in Sessions : AltCheck(s)
    \/ \E s \in Sessions : BookSuggestTables(s)
    \/ \E s \in Sessions, confirm \in BOOLEAN : BookSuggest(s, confirm)
    \/ \E s \in Sessions : BookInsert(s)
    \/ \E s \in Sessions, contact_lookup \in Contacts, to_cancel \in IdInputs :
           CancelOwn(s, contact_lookup, to_cancel)
    \/ \E s \in Sessions : CancelOwnWrite(s)
    \/ \E s \in Admins, pwd \in Passwords : AdminGate(s, pwd)
    \/ \E s \in Admins, sel_id \in ReservationIds : AdminConfirm(s, sel_id)
    \/ \E s \in Sessions : AdminConfirmTables(s)
    \/ \E s \in Sessions : AdminConfirmSuggest(s)
    \/ \E s \in Sessions : AdminConfirmWrite(s)
    \/ \E s \in Admins, sel_id \in ReservationIds : AdminCancel(s, sel_id)
    \/ \E s \in Sessions : AdminCancelWrite(s)
    \/ \E s \in Admins, sel_id \in ReservationIds, manual_table \in ManualInputs :
           ManualAssign(s, sel_id, manual_table)
    \/ \E s \in Sessions : ManualAssignWrite(s)
    \/ \E s \in Admins, new \in NewTables : AddTable(s, new)
    \/ \E s \in Admins, rem \in RemoveInputs : RemoveTable(s, rem)
    \/ \E s \in Admins, batch_date \in Dates : BatchFetch(s, batch_date)
    \/ \E s \in Sessions : BatchLoop(s)
    \/ \E s \in Sessions : BatchSuggest(s)
    \/ \E s \in Sessions : BatchWrite(s)

Spec == Init /\ [][Next]_vars

----------------------------------------------------------------------------
(* Direct calls of the helpers of the reservation logic, on stores drawn   *)
(* from the rows the app can hold: a pending row has no table, a confirmed *)
(* row has one, a cancelled row keeps what it had.                         *)

PureMaxRows == 2     \* rows of the reservations table of a drawn store

PureSlots ==
    { <<(<<2024, 1, 1>>), (<<10, 0>>)>>, <<(<<2024, 1, 1>>), (<<11, 0>>)>>,
      <<(<<2024, 1, 2>>), (<<10, 0>>)>> }

PureCells ==
    { <<None, "pending">>, <<None, "cancelled">>, <<"T1", "confirmed">>,
      <<"T1", "cancelled">>, <<"T3", "confirmed">>, <<"T3", "cancelled">> }

PureRow(slot, cell) ==
    [reservation_id |-> 0, customer_name |-> "Ann", contact |-> "a@x",
     date |-> slot[1], time |-> slot[2], party_size |-> 2,
     table_id |-> cell[1], status |-> cell[2], created_at |-> 0]

PureRows == { PureRow(slot, cell) : slot \in PureSlots, cell \in PureCells }

\* the drawn rows, numbered in insertion order
Numbered(rows) ==
    [k \in DOMAIN rows |-> [rows[k] EXCEPT !.reservation_id = k, !.created_at = k]]

PureStores ==
    UNION { { Numbered(rows) : rows \in [1..n -> PureRows] } : n \in 0..PureMaxRows }

PureTables ==
    { sample,
      SubSeq(sample, 1, 3),
      << sample[5], sample[4], sample[2], sample[1] >> }

QueryDates == {<<2024, 1, 1>>, <<2024, 1, 2>>}
QueryTimes == {<<10, 0>>, <<11, 0>>, <<11, 30>>, <<12, 0>>}
QueryParties == {2, 4, 8}
Instants ==
    { parse_datetime(<<2024, 1, 1>>, t) : t \in QueryTimes \cup {<<8, 30>>, <<11, 29>>} }
        \cup { parse_datetime(<<2024, 1, 2>>, <<10, 0>>) }

InitPure ==
    /\ cafe_tables \in PureTables
    /\ reservations \in PureStores
    /\ ss = [s \in Sessions |-> IdleLocals]
    /\ out = NoOutput
    /\ fq = NoCall

CallTimeConflicts(a, b) ==
    /\ fq = NoCall
    /\ fq' = [op |-> "time_conflicts", a |-> a, b |-> b,
              result |-> time_conflicts(a, b), swapped |-> time_conflicts(b, a)]
    /\ UNCHANGED <<cafe_tables, reservations, ss, out>>

CallAvailable(date_str, time_str, party_size) ==
    /\ fq = NoCall
    /\ fq' = [op |-> "available_tables_for_slot", date |-> date_str, time |-> time_str,
              party_size |-> party_size,
              result |-> available_tables_for_slot(date_str, time_str, party_size)]
    /\ UNCHANGED <<cafe_tables, reservations, ss, out>>

CallAssign(date_str, time_str, party_size) ==
    /\ fq = NoCall
    /\ fq' = [op |-> "ai_assign_table", date |-> date_str, time |-> time_str,
              party_size |-> party_size,
              result |-> ai_assign_table(date_str, time_str, party_size)]
    /\ UNCHANGED <<cafe_tables, reservations, ss, out>>

NextPure ==
    \/ \E a \in Instants, b \in Instants : CallTimeConflicts(a, b)
    \/ \E d \in QueryDates, t \in QueryTimes, p \in QueryParties : CallAvailable(d, t, p)
    \/ \E d \in QueryDates, t \in QueryTimes, p \in QueryParties : CallAssign(d, t, p)

SpecPure == InitPure /\ [][NextPure]_vars

----------------------------------------------------------------------------
(* "Run batch assign" run alone, and run again right after it has          *)
(* completed, on stores drawn from the rows the app can hold: no other     *)
(* script run commits while a batch run is under way.  The first run is    *)
(* session 1's, every later one session 2's; each is a whole script run,   *)
(* starting with init_db, and takes the steps of Spec.  fq keeps the       *)
(* store the first run started from.                                       *)

BatchMaxRows == 3    \* rows of the reservations table of a drawn store

BatchDates == { <<2024, 1, 1>> }

BatchSlots ==
    { <<(<<2024, 1, 1>>), (<<10, 0>>)>>, <<(<<2024, 1, 1>>), (<<11, 0>>)>>,
      <<(<<2024, 1, 2>>), (<<10, 0>>)>> }

\* party size, table_id, status
BatchCells ==
    { <<6, None, "pending">>, <<2, None, "pending">>,
      <<6, "T5", "confirmed">>, <<6, "T5", "cancelled">> }

BatchRow(slot, cell) ==
    [reservation_id |-> 0, customer_name |-> "Ann", contact |-> "a@x",
     date |-> slot[1], time |-> slot[2], party_size |-> cell[1],
     table_id |-> cell[2], status |-> cell[3], created_at |-> 0]

BatchRows == { BatchRow(slot, cell) : slot \in BatchSlots, cell \in BatchCells }

BatchTables == { sample, SubSeq(sample, 1, 4) }

InitBatch ==
    /\ cafe_tables \in BatchTables
    /\ \E n \in 0..BatchMaxRows :
          \E rows \in [1..n -> BatchRows] : reservations = Numbered(rows)
    /\ ss = [s \in Sessions |-> IdleLocals]
    /\ out = NoOutput
    /\ fq = [op |-> "batch_assign", start |-> reservations]

NextBatch ==
    \/ /\ out = NoOutput
       /\ \A t \in Sessions : ss[t].pc = "idle"
       /\ init_db(1)
    \/ /\ out.msg = "Batch assignment completed."
       /\ init_db(2)
    \/ \E s \in Sessions, batch_date \in BatchDates : BatchFetch(s, batch_date)
    \/ \E s \in Sessions : BatchLoop(s)
    \/ \E s \in Sessions : BatchSuggest(s)
    \/ \E s \in Sessions : BatchWrite(s)

SpecBatch == InitBatch /\ [][NextBatch]_vars

----------------------------------------------------------------------------
(* Properties of the reservation logic, checked under SpecPure *)

RowSet(rows) == { rows[k] : k \in DOMAIN rows }

TableIdsOf(rows) == { rows[k].table_id : k \in DOMAIN rows }

\* two starts of one date less than 90 minutes apart
WindowsOverlap(t1, t2) ==
    MinuteOfDay(t1) - MinuteOfDay(t2) < 90 /\ MinuteOfDay(t2) - MinuteOfDay(t1) < 90

\* a non-cancelled reservation of the date holds the table in a window that
\* overlaps the one starting at time
HeldAt(table_id, date, time) ==
    \E k \in DOMAIN reservations :
        /\ reservations[k].status # "cancelled"
        /\ reservations[k].date = date
        /\ reservations[k].table_id = table_id
        /\ WindowsOverlap(reservations[k].time, time)

FreeTables(date, time, party_size) ==
    { t \in RowSet(cafe_tables) :
        t.capacity >= party_size /\ ~HeldAt(t.table_id, date, time) }

\* C7: the availability filter returns exactly the tables with capacity >=
\* party_size that no non-cancelled reservation of the date holds in a window
\* conflicting with the target window, each once; a table booked at 10:00 is
\* left out for 10:00 and, when nothing else holds it, returned for 12:00.
C7_FilterExact ==
    fq.op = "available_tables_for_slot" =>
        /\ RowSet(fq.result) = FreeTables(fq.date, fq.time, fq.party_size)
        /\ Len(fq.result) = Cardinality(FreeTables(fq.date, fq.time, fq.party_size))
        /\ \A k \in DOMAIN reservations, t \in RowSet(cafe_tables) :
              ( /\ reservations[k].status # "cancelled"
                /\ reservations[k].table_id = t.table_id
                /\ reservations[k].date = fq.date
                /\ reservations[k].time = <<10, 0>>
                /\ t.capacity >= fq.party_size )
              => /\ fq.time = <<10, 0>> => t.table_id \notin TableIdsOf(fq.result)
                 /\ ( fq.time = <<12, 0>> /\ ~HeldAt(t.table_id, fq.date, <<11, 0>>) )
                       => t.table_id \in TableIdsOf(fq.result)

\* a table booked at 10:00 is returned for 12:00 of the same date
C7_Witness ==
    /\ fq.op = "available_tables_for_slot"
    /\ fq.time = <<12, 0>>
    /\ "T1" \in TableIdsOf(fq.result)
    /\ \E k \in DOMAIN reservations :
          /\ reservations[k].status = "confirmed"
          /\ reservations[k].table_id = "T1"
          /\ reservations[k].date = fq.date
          /\ reservations[k].time = <<10, 0>>

\* the key (waste, capacity, table_id) of a is below that of b
KeyBelow(party_size, a, b) ==
    LET ka == <<a.capacity - party_size, a.capacity, TableIdRank(a.table_id)>>
        kb == <<b.capacity - party_size, b.capacity, TableIdRank(b.table_id)>>
    IN \E i \in 1..3 : ka[i] < kb[i] /\ \A j \in 1..(i - 1) : ka[j] = kb[j]

\* C8: for a non-empty set of available tables the heuristic returns the one
\* table that is minimal by (capacity - party_size, capacity, table id); for
\* an empty set it returns no assignment.
C8_HeuristicMinimal ==
    fq.op = "ai_assign_table" =>
        LET avail == FreeTables(fq.date, fq.time, fq.party_size)
            minimal == { t \in avail :
                           \A u \in avail \ {t} : KeyBelow(fq.party_size, t, u) }
        IN IF avail = {}
           THEN fq.result = None
           ELSE /\ Cardinality(minimal) = 1
                /\ \A t \in minimal : fq.result = t.table_id

\* Scenario A: tables T1 (2), T2 (2), T3 (4), party of 2, nothing booked: T1
C8_Witness ==
    /\ fq.op = "ai_assign_table"
    /\ cafe_tables = SubSeq(sample, 1, 3)
    /\ reservations = <<>>
    /\ fq.party_size = 2
    /\ fq.result = "T1"

\* C9: time_conflicts(a, b) is NOT (a + 90 <= b OR b + 90 <= a), that is the
\* starts are less than 90 minutes apart; it is symmetric, and windows that
\* only touch (b = a + 90) do not conflict.
C9_TimeConflicts ==
    fq.op = "time_conflicts" =>
        /\ fq.result = ~(fq.a + 90 <= fq.b \/ fq.b + 90 <= fq.a)
        /\ fq.result = (fq.a - fq.b < 90 /\ fq.b - fq.a < 90)
        /\ fq.swapped = fq.result
        /\ (fq.b = fq.a + 90 => ~fq.result)

\* a call on two windows that only touch
C9_Witness ==
    /\ fq.op = "time_conflicts"
    /\ fq.b = fq.a + 90
    /\ ~fq.result

----------------------------------------------------------------------------
(* Properties of the store under the script runs, checked under Spec *)

Live(r) == r.status # "cancelled"

\* rows i and j are a double booking: both live, one table, one date,
\* starts less than 90 minutes apart
Clash(r1, r2) ==
    /\ Live(r1) /\ Live(r2)
    /\ Truthy(r1.table_id) /\ r1.table_id = r2.table_id
    /\ r1.date = r2.date
    /\ WindowsOverlap(r1.time, r2.time)

\* the audit with every conflicting pair in both orders
ConflictAuditOrdered ==
    { <<i, j>> \in (DOMAIN reservations) \X (DOMAIN reservations) :
        i # j /\ Clash(reservations[i], reservations[j]) }

\* the conflict audit over the store: the unordered pairs of distinct rows
\* that are a double booking
ConflictAudit ==
    { <<i, j>> \in (DOMAIN reservations) \X (DOMAIN reservations) :
        i < j /\ Clash(reservations[i], reservations[j]) }

\* C1: no two distinct reservations that are not cancelled share a table on
\* one date with conflicting windows: the conflict audit of the store is
\* always empty.
C1_NoDoubleBooking == ConflictAudit = {}

\* C2: a request's check, choice and insert take effect as one atomic step:
\* the row a request inserts as confirmed is never on a table that a live
\* reservation of the same date already holds in a conflicting window.
C2_RequestAtomic ==
    [][ \A s \in Sessions :
          BookInsert(s)
          => LET new == reservations'[Len(reservations')]
             IN new.status = "confirmed"
                => \A k \in DOMAIN reservations : ~Clash(reservations[k], new) ]_vars

\* C3: cancelled is terminal: a reservation whose status is cancelled keeps
\* that status in every step.
C3_CancelledTerminal ==
    [][ \A k \in DOMAIN reservations :
          reservations[k].status = "cancelled"
          => reservations'[k].status = "cancelled" ]_vars

\* C4: every reservation with an assigned table has party_size <= the
\* capacity of that table in the current table set.
C4_PartyFitsTable ==
    \A k \in DOMAIN reservations :
        Truthy(reservations[k].table_id)
        => \E t \in RowSet(cafe_tables) :
              /\ t.table_id = reservations[k].table_id
              /\ reservations[k].party_size <= t.capacity

\* the table id with the least key (waste, capacity, table_id) among cands
PickFrom(cands, party_size) ==
    CHOOSE id \in TableIdsOf(cands) :
        \E t \in RowSet(cands) :
            /\ t.table_id = id
            /\ \A u \in RowSet(cands) \ {t} : KeyBelow(party_size, t, u)

\* C5: a request whose availability filter was non-empty (the only requests
\* that reach the insert) creates exactly one new reservation, confirmed, on
\* the table the heuristic picks from that filter result, and changes no
\* other row.
C5_RequestConfirms ==
    [][ \A s \in Sessions :
          BookInsert(s)
          => /\ Len(reservations') = Len(reservations) + 1
             /\ SubSeq(reservations', 1, Len(reservations)) = reservations
             /\ LET new == reservations'[Len(reservations')]
                IN /\ new.status = "confirmed"
                   /\ new.table_id = PickFrom(ss[s].candidates, ss[s].party) ]_vars

\* the store holds a pending row without a table for the request of run s
PendingRowFor(s) ==
    \E k \in DOMAIN reservations' :
        /\ reservations'[k].contact = ss[s].contact
        /\ reservations'[k].date = ss[s].date
        /\ reservations'[k].time = ss[s].time
        /\ reservations'[k].party_size = ss[s].party
        /\ reservations'[k].status = "pending"
        /\ reservations'[k].table_id = None

\* C6 as claimed: a request whose availability filter is empty creates a
\* reservation with status pending and no assigned table: when the run of
\* such a request ends, the store holds that reservation.
C6_PendingWhenEmpty ==
    [][ \A s \in Sessions :
          ( ss[s].delta = Len(Deltas) /\ AltCheck(s) ) => PendingRowFor(s) ]_vars

\* C6 as amended: a request whose availability filter is empty (a party of 8
\* with no table above 6 seats, or every fitting table busy) creates no
\* reservation: the step that shows the no-tables warning and the steps that
\* look for alternative times notify nobody and leave the store and the table
\* set unchanged, the run ends after them, and a row is only ever inserted
\* by a request whose own availability check found candidates.
C6_NothingWhenEmpty ==
    [][ /\ out'.msg = "No tables available"
           => /\ reservations' = reservations
              /\ cafe_tables' = cafe_tables
              /\ out'.notified = {}
              /\ \E s \in Sessions :
                    \/ ss[s].pc = "book_check" /\ ss'[s].pc = "alt_tables"
                    \/ ss[s].pc = "alt_check" /\ ss'[s].pc = "idle"
        /\ \A s \in Sessions :
              ( ss[s].pc \in {"alt_tables", "alt_check"} /\ ss'[s] # ss[s] )
              => /\ reservations' = reservations
                 /\ cafe_tables' = cafe_tables
                 /\ out'.notified = {}
                 /\ out'.msg \in {None, "No tables available", "Try these alternatives"}
                 /\ ss'[s].pc \in {"alt_tables", "alt_check", "idle"}
        /\ Len(reservations') > Len(reservations)
           => \E s \in Sessions :
                 /\ ss[s].pc = "book_insert"
                 /\ ss[s].candidates # <<>>
                 /\ ss'[s].pc = "idle" ]_vars

\* a request was turned away for lack of a table and offered alternative
\* times, while the store holds a reservation and no row is pending
C6_Witness ==
    /\ out.msg = "Try these alternatives"
    /\ out.suggestions # <<>>
    /\ reservations # <<>>
    /\ \A k \in DOMAIN reservations : reservations[k].status # "pending"

\* C10: a cancelled reservation no longer makes its table busy: in the next
\* state, whenever the table still fits the party and no other live
\* reservation holds it in a conflicting window, the availability filter for
\* the cancelled reservation's slot returns the table.
C10_CancelFreesTable ==
    [][ \A k \in DOMAIN reservations :
          ( reservations[k].status = "cancelled" /\ Truthy(reservations[k].table_id) )
          => LET r == reservations[k]
             IN \A t \in RowSet(cafe_tables') :
                  ( /\ t.table_id = r.table_id
                    /\ t.capacity >= r.party_size
                    /\ \A j \in DOMAIN reservations' :
                          j # k => ~( /\ Live(reservations'[j])
                                      /\ reservations'[j].table_id = r.table_id
                                      /\ reservations'[j].date = r.date
                                      /\ WindowsOverlap(reservations'[j].time, r.time) ) )
                  => r.table_id \in
                       TableIdsOf(available_tables_for_slot(r.date, r.time,
                                                            r.party_size)') ]_vars

----------------------------------------------------------------------------
(* Properties of the customer and admin handlers, checked under Spec *)

\* the store holds a row with this id and this contact
OwnedBy(id, contact) ==
    \E k \in DOMAIN reservations :
        reservations[k].reservation_id = id /\ reservations[k].contact = contact

CancelRefusals ==
    { "No reservations found for that contact.", "Enter a reservation ID.",
      "Reservation ID not found for this contact." }

\* C11: a customer cancel whose contact is not the stored contact of the
\* reservation, or whose id is unknown, is refused and leaves every
\* reservation's status and table unchanged; when the contact matches, the
\* reservation's status becomes cancelled.
C11_CancelScoped ==
    [][ /\ ( \E s \in Sessions : ss[s].pc = "run" /\ ss'[s].pc \in {"idle", "cancel_write"} )
           => \A s \in Sessions, c \in Contacts, id \in IdInputs :
                 CancelOwn(s, c, id)
                 => /\ reservations' = reservations
                    /\ out'.notified = {}
                    /\ IF OwnedBy(id, c)
                       THEN /\ ss'[s].pc = "cancel_write"
                            /\ ss'[s].id = id
                       ELSE /\ out'.msg \in CancelRefusals
                            /\ ss'[s].pc = "idle"
        /\ \A s \in Sessions :
              CancelOwnWrite(s)
              => /\ OwnedBy(ss[s].id, ss[s].contact)
                 /\ Len(reservations') = Len(reservations)
                 /\ \A k \in DOMAIN reservations :
                       reservations[k].reservation_id = ss[s].id
                       => reservations'[k].status = "cancelled" ]_vars

\* a cancel was refused for an id that exists under another contact, in a
\* store that holds a cancelled and a confirmed reservation
C11_Witness ==
    /\ out.msg = "Reservation ID not found for this contact."
    /\ Len(reservations) = 2
    /\ reservations[1].contact # reservations[2].contact
    /\ \E k \in DOMAIN reservations : reservations[k].status = "cancelled"
    /\ \E k \in DOMAIN reservations : reservations[k].status = "confirmed"

\* C13: a manual assign is accepted only if the table exists, seats the
\* party and is held by no other live reservation in a conflicting window;
\* otherwise the store is left unchanged.
C13_ManualAssignChecked ==
    [][ \A s \in Sessions :
          ManualAssignWrite(s)
          => LET id == ss[s].id
                 t == ss[s].table
                 r == RowOf(id)
                 fits == \E row \in RowSet(cafe_tables) :
                            row.table_id = t /\ row.capacity >= r.party_size
                 held == \E k \in DOMAIN reservations :
                            /\ reservations[k].reservation_id # id
                            /\ Live(reservations[k])
                            /\ reservations[k].table_id = t
                            /\ reservations[k].date = r.date
                            /\ WindowsOverlap(reservations[k].time, r.time)
             IN IF fits /\ ~held
                THEN reservations' = assign_table_to_reservation(id, t)
                ELSE reservations' = reservations ]_vars

\* C14: a request with an empty name or an empty contact fails with the
\* validation error: its run ends there, it inserts no reservation, notifies
\* nobody and leaves the store, the table set and every other run unchanged;
\* no row of the store ever has an empty name or contact.
C14_ValidationRejects ==
    [][ /\ ( \E s \in Sessions : ss[s].pc = "run" /\ ss'[s].pc \in {"idle", "book_check"} )
           => \A s \in Sessions, form \in BookingForms :
              ( /\ form.name = "" \/ form.contact = ""
                /\ BookSubmit(s, form) )
              => /\ out'.msg = "Please enter name and contact."
                 /\ out'.notified = {}
                 /\ reservations' = reservations
                 /\ cafe_tables' = cafe_tables
                 /\ ss' = [ss EXCEPT ![s] = IdleLocals]
        /\ \A k \in DOMAIN reservations' :
              reservations'[k].customer_name # "" /\ reservations'[k].contact # "" ]_vars

\* a request was refused for its empty name or contact while the store
\* holds a reservation
C14_Witness ==
    /\ out.msg = "Please enter name and contact."
    /\ reservations # <<>>

\* the tables that fit the party of row r and that no live row other than r
\* holds in a window conflicting with r's
FreeExcluding(r) ==
    { t \in RowSet(cafe_tables) :
        /\ t.capacity >= r.party_size
        /\ ~\E k \in DOMAIN reservations :
               /\ reservations[k].reservation_id # r.reservation_id
               /\ Live(reservations[k])
               /\ reservations[k].table_id = t.table_id
               /\ reservations[k].date = r.date
               /\ WindowsOverlap(reservations[k].time, r.time) }

\* C16: "Confirm (assign suggested)" on a reservation of the store leaves the
\* reservation out of its own comparison set: when a table is free but for
\* this reservation holding it, the step does not report that no table is
\* available and it picks the best table among those free of other holders.
C16_SelfExcluded ==
    [][ \A s \in Sessions :
          AdminConfirmSuggest(s)
          => LET r == RowOf(ss[s].id)
             IN FreeExcluding(r) # {}
                => /\ ss'[s].pc = "confirm_write"
                   /\ \E t \in FreeExcluding(r) :
                         /\ ss'[s].table = t.table_id
                         /\ \A u \in FreeExcluding(r) \ {t} :
                               KeyBelow(r.party_size, t, u) ]_vars

\* C19: status and table agree: a confirmed reservation has a non-empty
\* table id and a pending reservation has none (a cancelled one may keep the
\* table id it had).
C19_StatusTableAgree ==
    \A k \in DOMAIN reservations :
        /\ reservations[k].status \in {"pending", "confirmed", "cancelled"}
        /\ reservations[k].status = "confirmed" => Truthy(reservations[k].table_id)
        /\ reservations[k].status = "pending" => reservations[k].table_id = None

\* the store holds a pending row and a confirmed row
C19_Witness ==
    /\ \E k \in DOMAIN reservations :
          reservations[k].status = "pending" /\ reservations[k].table_id = None
    /\ \E k \in DOMAIN reservations :
          reservations[k].status = "confirmed" /\ Truthy(reservations[k].table_id)

\* the store after a cancel of the row with this id: that row's status is
\* cancelled, nothing else differs
OnlyStatusCancelled(id) ==
    /\ Len(reservations') = Len(reservations)
    /\ \A k \in DOMAIN reservations :
          reservations'[k] =
              IF reservations[k].reservation_id = id
              THEN [reservations[k] EXCEPT !.status = "cancelled"]
              ELSE reservations[k]
    /\ cafe_tables' = cafe_tables

\* C20: a cancel (by the customer or by the admin) changes only the status of
\* the targeted reservation: its id, contact, date, time, party size, table id
\* and creation timestamp stay, no row is deleted, and every other
\* reservation and the table set are unchanged.
C20_CancelFrame ==
    [][ /\ \A s \in Sessions :
              ( out'.msg = "Reservation cancelled." /\ CancelOwnWrite(s) )
              => OnlyStatusCancelled(ss[s].id)
        /\ \A s \in Sessions :
              ( out'.msg = "Marked cancelled." /\ AdminCancelWrite(s) )
              => OnlyStatusCancelled(ss[s].id)
        /\ \A s \in Sessions :
              ( /\ ss[s].pc = "run"
                /\ ss'[s].pc \in {"cancel_write", "admin_cancel_write"} )
              => reservations' = reservations /\ cafe_tables' = cafe_tables ]_vars

\* the admin cancelled a confirmed reservation: it keeps its table, and the
\* other reservation is still confirmed
C20_Witness ==
    /\ out.msg = "Marked cancelled."
    /\ Len(reservations) = 2
    /\ \E k \in DOMAIN reservations :
          reservations[k].status = "cancelled" /\ Truthy(reservations[k].table_id)
    /\ \E k \in DOMAIN reservations : reservations[k].status = "confirmed"

----------------------------------------------------------------------------
(* Properties of the batch assignment, checked under SpecBatch *)

\* the tables that fit row r and that no live row of store holds in a window
\* conflicting with r's
FreeIn(store, r) ==
    { t \in RowSet(cafe_tables) :
        /\ t.capacity >= r.party_size
        /\ ~\E k \in DOMAIN store :
               /\ Live(store[k])
               /\ store[k].table_id = t.table_id
               /\ store[k].date = r.date
               /\ WindowsOverlap(store[k].time, r.time) }

BestOf(tables, party_size) ==
    CHOOSE t \in tables : \A u \in tables \ {t} : KeyBelow(party_size, t, u)

\* the positions of the rows of a date that are not cancelled and are
\* unassigned or unconfirmed, in ascending creation order
CreationOrder(store, date) ==
    SortSeq(SelectSeq([k \in DOMAIN store |-> k],
                      LAMBDA k : /\ store[k].date = date
                                 /\ store[k].status # "cancelled"
                                 /\ ( store[k].table_id = None
                                      \/ store[k].status # "confirmed" )),
            LAMBDA i, j : store[i].created_at < store[j].created_at)

\* first come, first served: each row of todo in turn gets the best table
\* free in the store as the earlier rows of todo left it, or is skipped
RECURSIVE BatchOutcome(_, _)
BatchOutcome(store, todo) ==
    IF todo = <<>> THEN store
    ELSE LET k == Head(todo)
             free == FreeIn(store, store[k])
         IN IF free = {}
            THEN BatchOutcome(store, Tail(todo))
            ELSE BatchOutcome([store EXCEPT
                                  ![k].table_id = BestOf(free, store[k].party_size).table_id,
                                  ![k].status = "confirmed"],
                              Tail(todo))

\* Scenario D: three pending reservations of one slot of the date, one free
\* table that seats them
ScenarioD(store, date) ==
    /\ Len(store) = 3
    /\ \A k \in 1..3 : /\ store[k].status = "pending"
                       /\ store[k].date = date
                       /\ store[k].time = store[1].time
                       /\ store[k].party_size = store[1].party_size
    /\ Cardinality(FreeIn(store, store[1])) = 1

\* C12: a batch run processes the non-cancelled, unassigned-or-unconfirmed
\* reservations of the date in ascending creation order, each against the
\* store as the earlier assignments of the run left it, skips those without
\* an available table and reports the number it newly confirmed; with three
\* pending reservations of one slot and one free table that seats them, the
\* earliest-created becomes confirmed and the other two stay pending.
C12_BatchFirstCome ==
    [][ ( ss[1].pc = "batch_loop" /\ ss'[1].pc = "idle" )
        => \A date \in BatchDates :
             LET expected == BatchOutcome(fq.start, CreationOrder(fq.start, date))
                 newly == { k \in DOMAIN expected :
                              /\ fq.start[k].status # "confirmed"
                              /\ expected[k].status = "confirmed" }
             IN /\ reservations' = expected
                /\ out'.msg = "Batch assignment completed."
                /\ out'.count = Cardinality(newly)
                /\ ScenarioD(fq.start, date)
                   => /\ reservations'[1].status = "confirmed"
                      /\ reservations'[2].status = "pending"
                      /\ reservations'[3].status = "pending"
                      /\ out'.count = 1 ]_vars

\* Scenario D has run: of three pending reservations for the one free table
\* the earliest is confirmed, the other two are pending
C12_Witness ==
    /\ fq.op = "batch_assign"
    /\ \E date \in BatchDates : ScenarioD(fq.start, date)
    /\ out.msg = "Batch assignment completed."
    /\ out.count = 1
    /\ reservations[1].status = "confirmed"
    /\ reservations[2].status = "pending"
    /\ reservations[3].status = "pending"

\* C18: a batch run started right after a batch run of the same date has
\* completed confirms nothing (count 0) and leaves every reservation's
\* status and table unchanged; no batch step changes a reservation that is
\* confirmed with a table.
C18_BatchIdempotent ==
    [][ /\ ( ss[2].pc # "idle" \/ ss'[2].pc # "idle" )
           => /\ reservations' = reservations
              /\ out'.msg = "Batch assignment completed." => out'.count = 0
        /\ \A k \in DOMAIN reservations :
              ( reservations[k].status = "confirmed" /\ Truthy(reservations[k].table_id) )
              => reservations'[k] = reservations[k] ]_vars

\* a run that confirmed nothing has completed on a store that an earlier run
\* changed and that still holds a pending reservation of the date
C18_Witness ==
    /\ fq.op = "batch_assign"
    /\ out.msg = "Batch assignment completed."
    /\ out.count = 0
    /\ reservations # fq.start
    /\ \E k \in DOMAIN reservations, date \in BatchDates :
          reservations[k].status = "pending" /\ reservations[k].date = date

----------------------------------------------------------------------------
(* Properties of the conflict audit and of the purity of the reservation   *)
(* logic, checked under SpecPure                                           *)

\* rows i and j share a table and their windows conflict
SharesTableInConflict(i, j) ==
    /\ Truthy(reservations[i].table_id)
    /\ reservations[i].table_id = reservations[j].table_id
    /\ reservations[i].date = reservations[j].date
    /\ time_conflicts(parse_datetime(reservations[i].date, reservations[i].time),
                      parse_datetime(reservations[j].date, reservations[j].time))

\* C15: the conflict audit of the non-cancelled reservations is exactly the
\* unordered pairs of distinct reservations that share a table and have
\* conflicting windows: no reservation is paired with itself and each
\* unordered pair is reported once.
C15_AuditPairs ==
    LET live == { k \in DOMAIN reservations : reservations[k].status # "cancelled" }
    IN /\ \A pair \in ConflictAudit :
             /\ pair[1] # pair[2]
             /\ pair[1] \in live /\ pair[2] \in live
             /\ SharesTableInConflict(pair[1], pair[2])
       /\ \A i \in live, j \in live :
             ( i # j /\ SharesTableInConflict(i, j) )
             => Cardinality({ <<i, j>>, <<j, i>> } \cap ConflictAudit) = 1

\* a store with one double booking, at 10:00 and 11:00 on one table: the
\* audit reports the one pair
C15_Witness ==
    /\ Len(reservations) = 2
    /\ Cardinality(ConflictAudit) = 1
    /\ reservations[1].time # reservations[2].time

\* the rows of seq in every order
Reorderings(seq) ==
    { [i \in DOMAIN seq |-> seq[perm[i]]] : perm \in Permutations(DOMAIN seq) }

\* the rows of seq as they are and in the opposite order, which swaps the
\* order of every two rows
Reversals(seq) == { seq, [i \in DOMAIN seq |-> seq[Len(seq) + 1 - i]] }

\* available_tables_for_slot on given rows of cafe_tables and reservations
FilterOn(table_rows, resv_rows, date_str, time_str, party_size) ==
    LET all_tables == SortSeq(table_rows, TableOrder)
        rsv == SelectSeq(resv_rows, LAMBDA r : r.date = date_str)
    IN available_tables_on(all_tables, rsv, date_str, time_str, party_size)

\* ai_assign_table on given rows of cafe_tables and reservations
PickOn(table_rows, resv_rows, date_str, time_str, party_size) ==
    chosen_of(FilterOn(table_rows, resv_rows, date_str, time_str, party_size),
              party_size)

\* C17: the availability filter and the selection heuristic are read-only
\* and deterministic: a call leaves the table set and every reservation
\* unchanged, and on the same tables (rows as stored or reversed) and the
\* same reservations stored in any row order the filter returns the same set
\* of tables and the heuristic the same table.
C17_PureAndOrderFree ==
    [][ /\ fq' # fq => ( cafe_tables' = cafe_tables /\ reservations' = reservations )
        /\ fq'.op = "available_tables_for_slot"
           => /\ FilterOn(cafe_tables, reservations,
                          fq'.date, fq'.time, fq'.party_size) = fq'.result
              /\ \A tr \in Reversals(cafe_tables), rr \in Reorderings(reservations) :
                    RowSet(FilterOn(tr, rr, fq'.date, fq'.time, fq'.party_size))
                        = RowSet(fq'.result)
        /\ fq'.op = "ai_assign_table"
           => \A tr \in Reversals(cafe_tables), rr \in Reorderings(reservations) :
                 PickOn(tr, rr, fq'.date, fq'.time, fq'.party_size) = fq'.result ]_vars

\* the heuristic was called for a slot in which two live reservations hold
\* two different tables, and it chose a third
C17_Witness ==
    /\ fq.op = "ai_assign_table"
    /\ Len(reservations) = 2
    /\ reservations[1].status = "confirmed" /\ reservations[2].status = "confirmed"
    /\ reservations[1].table_id # reservations[2].table_id
    /\ reservations[1].date = fq.date /\ reservations[2].date = fq.date
    /\ reservations[1].time = fq.time /\ reservations[2].time = fq.time
    /\ fq.result \notin {None, reservations[1].table_id, reservations[2].table_id}

====
